---- MODULE Spec2Model ----
(***************************************************************************)
(* A model of server.js: the express handlers of the freshcart backend and *)
(* the two SQLite tables they read and write (users, inventory).           *)
(*                                                                         *)
(* One sqlite3 statement executes atomically on the single connection; the *)
(* callback that receives its result is modelled in the same step, because *)
(* nothing but the response is computed between the two.  A handler that   *)
(* issues several statements or awaits (POST /register, POST /login) is    *)
(* one step per statement or callback, so overlapping requests interleave. *)
(* The store fails only where the schema makes it fail (UNIQUE).  The      *)
(* server process is taken to stay up.                                     *)
(***************************************************************************)
EXTENDS Integers, Sequences, FiniteSets, TLC

(***************************************************************************)
(* Values of a request body, as JavaScript sees them.                      *)
(***************************************************************************)
Str(s) == [t |-> "string", v |-> s]
Num(s) == [t |-> "number", v |-> s]
Undefined == [t |-> "undefined", v |-> ""]

\* !x of JavaScript
Falsy(x) == x = Undefined \/ x = Str("") \/ x = Num("0")

(***************************************************************************)
(* Bounds                                                                  *)
(***************************************************************************)
\* number of POST /register and POST /login requests in one run
NumReqs == 2
\* number of ids the inventory table hands out in one run
MaxProducts == 2

Reqs == 1..NumReqs

(***************************************************************************)
(* State                                                                   *)
(***************************************************************************)
VARIABLES
    users,      \* rows of table users
    pc,         \* per request: which callback of its handler is pending
    closure,    \* per request: the variables its pending callback captured
    resp,       \* per request: the responses written to res, in order
    conflictAtIssue, \* history: what collided with an existing row on arrival
    passed,     \* history: the username and email that passed the pre-check
    inventory,  \* rows of table inventory
    seq,        \* sqlite_sequence entry of inventory (AUTOINCREMENT)
    assigned,   \* history: ids handed out by POST /addProduct
    deleted,    \* history: ids DELETE /deleteProduct has answered for
    created,    \* history: id -> the request that created it, until changed
    last        \* the last response of a handler that writes inventory

userVars == <<users, pc, closure, resp, conflictAtIssue, passed>>
invVars == <<inventory, seq, assigned, deleted, created, last>>
vars == <<users, pc, closure, resp, conflictAtIssue, passed,
          inventory, seq, assigned, deleted, created, last>>

None == [t |-> "none", v |-> ""]
NoClosure == [kind |-> "none"]

(***************************************************************************)
(* Request bodies of POST /register and POST /login                        *)
(***************************************************************************)
Usernames == {Str("alice"), Str("bob")}
Emails == {Str("a@x"), Str("b@x")}
\* a password may be missing, or a JSON number instead of a string
Passwords == {Str("pw1"), Str("pw2"), Num("123"), Undefined}
Salts == {"s1", "s2"}

RegisterBodies ==
    [name : {Str("n"), Undefined},
     username : Usernames \cup {Undefined, Str("")},
     email : Emails \cup {Undefined},
     address : {Str("addr"), Undefined},
     password : Passwords]

LoginBodies == [username : Usernames \cup {Undefined}, password : Passwords]

Response(status, message) == [status |-> status, message |-> message]

(***************************************************************************)
(* bcryptjs                                                                *)
(***************************************************************************)
\* bcrypt.hash(s, 10, cb): an error for a non-string, else a salted digest
HashError(s) == s.t # "string"

BcryptHash(s, salt) == [alg |-> "bcrypt", cost |-> 10, salt |-> salt, of |-> s.v]

\* await bcrypt.compare(s, hash): the promise rejects for a non-string s,
\* else resolves to whether s hashed with the salt of hash gives hash
CompareRejects(s, hash) == s.t # "string"

BcryptCompare(s, hash) == BcryptHash(s, hash.salt) = hash

(***************************************************************************)
(* Table users                                                             *)
(***************************************************************************)
\* the mutant: the UNIQUE constraint on email is missing
UniqueOnUsernameOnly(row) == \E u \in users : u.username = row.username

\* the mutant: neither column is UNIQUE
NoUniqueConstraint(row) == FALSE

\* username TEXT NOT NULL UNIQUE, email TEXT NOT NULL UNIQUE
UniqueViolation(row) ==
    \E u \in users : u.username = row.username \/ u.email = row.email

\* the mutant: the pre-check looks at the username alone
SelectByUsernameOnly(username, email) == {u \in users : u.username = username.v}

\* SELECT * FROM users WHERE username = ? OR email = ?
SelectByUsernameOrEmail(username, email) ==
    {u \in users : u.username = username.v \/ u.email = email.v}

\* SELECT * FROM users WHERE username = ?   (an unbound parameter is NULL)
SelectByUsername(username) ==
    IF username.t = "undefined" THEN {}
    ELSE {u \in users : u.username = username.v}

\* which column of an existing row a new username and email collide with
ConflictKind(username, email) ==
    LET sameName == \E u \in users : u.username = username
        sameMail == \E u \in users : u.email = email
    IN IF sameName /\ sameMail THEN "both"
       ELSE IF sameName THEN "username"
       ELSE IF sameMail THEN "email"
       ELSE "none"

\* requests are numbered in the order they arrive
InArrivalOrder(r) == IF r = 1 THEN TRUE ELSE pc[r - 1] # "idle"

Finish(r, response) ==
    /\ resp' = [resp EXCEPT ![r] = Append(@, response)]
    /\ pc' = [pc EXCEPT ![r] = "done"]
    /\ closure' = [closure EXCEPT ![r] = NoClosure]

(***************************************************************************)
(* POST /register                                                          *)
(***************************************************************************)
\* the handler itself: validation, then the pre-check is queued
RegisterArrive(r, body) ==
    /\ pc[r] = "idle"
    /\ InArrivalOrder(r)
    /\ IF \/ Falsy(body.name) \/ Falsy(body.username) \/ Falsy(body.email)
          \/ Falsy(body.address) \/ Falsy(body.password)
       THEN /\ Finish(r, Response(400, "All fields are required"))
            /\ UNCHANGED conflictAtIssue
       ELSE /\ pc' = [pc EXCEPT ![r] = "precheck"]
            /\ closure' = [closure EXCEPT ![r] = [kind |-> "register", body |-> body]]
            /\ conflictAtIssue' = [conflictAtIssue EXCEPT ![r] =
                   ConflictKind(body.username.v, body.email.v)]
            /\ UNCHANGED resp
    /\ UNCHANGED <<users, passed>>
    /\ UNCHANGED invVars

\* the callback of the pre-check
RegisterPreCheck(r) ==
    /\ pc[r] = "precheck"
    /\ LET body == closure[r].body
           rows == SelectByUsernameOrEmail(body.username, body.email)
       IN IF rows # {}
          THEN /\ Finish(r, Response(400, "Username or Email already exists"))
               /\ UNCHANGED passed
          ELSE /\ pc' = [pc EXCEPT ![r] = "hash"]
               /\ passed' = [passed EXCEPT ![r] =
                      [t |-> "passed", username |-> body.username.v,
                       email |-> body.email.v, hashed |-> FALSE]]
               /\ UNCHANGED <<closure, resp>>
    /\ UNCHANGED <<users, conflictAtIssue>>
    /\ UNCHANGED invVars

\* the callback of bcrypt.hash
RegisterHash(r, salt) ==
    /\ pc[r] = "hash"
    /\ LET body == closure[r].body
       IN IF HashError(body.password)
          THEN /\ Finish(r, Response(500, "Error hashing password"))
               /\ UNCHANGED passed
          ELSE /\ pc' = [pc EXCEPT ![r] = "insert"]
               /\ closure' = [closure EXCEPT ![r] =
                      [kind |-> "register", body |-> body,
                       hashedPassword |-> BcryptHash(body.password, salt)]]
               /\ passed' = [passed EXCEPT ![r].hashed = TRUE]
               /\ UNCHANGED resp
    /\ UNCHANGED <<users, conflictAtIssue>>
    /\ UNCHANGED invVars

\* the INSERT and its callback
RegisterInsert(r) ==
    /\ pc[r] = "insert"
    /\ LET body == closure[r].body
           row == [name |-> body.name.v, username |-> body.username.v,
                   email |-> body.email.v, password |-> closure[r].hashedPassword,
                   address |-> body.address.v]
       IN IF UniqueViolation(row)
          THEN /\ Finish(r, Response(500, "Error inserting user"))
               /\ UNCHANGED users
          ELSE /\ users' = users \cup {row}
               /\ Finish(r, Response(201, "User registered successfully"))
    /\ UNCHANGED <<conflictAtIssue, passed>>
    /\ UNCHANGED invVars

(***************************************************************************)
(* POST /login                                                             *)
(***************************************************************************)
LoginArrive(r, body) ==
    /\ pc[r] = "idle"
    /\ InArrivalOrder(r)
    /\ pc' = [pc EXCEPT ![r] = "lookup"]
    /\ closure' = [closure EXCEPT ![r] = [kind |-> "login", body |-> body]]
    /\ UNCHANGED <<users, resp, conflictAtIssue, passed>>
    /\ UNCHANGED invVars

\* the callback of the SELECT, up to its await
LoginLookup(r) ==
    /\ pc[r] = "lookup"
    /\ LET body == closure[r].body
           rows == SelectByUsername(body.username)
       IN IF rows = {}
          THEN Finish(r, Response(401, "Invalid Username!"))
          ELSE /\ pc' = [pc EXCEPT ![r] = "compare"]
               /\ closure' = [closure EXCEPT ![r] =
                      [kind |-> "login", body |-> body,
                       user |-> CHOOSE u \in rows : TRUE]]
               /\ UNCHANGED resp
    /\ UNCHANGED <<users, conflictAtIssue, passed>>
    /\ UNCHANGED invVars

\* the rest of the callback, after bcrypt.compare has settled.  A rejection
\* is thrown inside the async callback, which nothing catches: the callback
\* ends there and res is never written.
LoginCompare(r) ==
    /\ pc[r] = "compare"
    /\ LET body == closure[r].body
           user == closure[r].user
       IN IF CompareRejects(body.password, user.password)
          THEN /\ pc' = [pc EXCEPT ![r] = "rejected"]
               /\ closure' = [closure EXCEPT ![r] = NoClosure]
               /\ UNCHANGED resp
          ELSE IF ~BcryptCompare(body.password, user.password)
               THEN Finish(r, Response(401, "Invalid Password!"))
               ELSE Finish(r, Response(200, "Login successful!"))
    /\ UNCHANGED <<users, conflictAtIssue, passed>>
    /\ UNCHANGED invVars

InitUsers ==
    /\ users = {}
    /\ pc = [r \in Reqs |-> "idle"]
    /\ closure = [r \in Reqs |-> NoClosure]
    /\ resp = [r \in Reqs |-> <<>>]
    /\ conflictAtIssue = [r \in Reqs |-> "none"]
    /\ passed = [r \in Reqs |-> None]

NextUsers ==
    \/ \E r \in Reqs, body \in RegisterBodies : RegisterArrive(r, body)
    \/ \E r \in Reqs : RegisterPreCheck(r)
    \/ \E r \in Reqs, salt \in Salts : RegisterHash(r, salt)
    \/ \E r \in Reqs : RegisterInsert(r)
    \/ \E r \in Reqs, body \in LoginBodies : LoginArrive(r, body)
    \/ \E r \in Reqs : LoginLookup(r)
    \/ \E r \in Reqs : LoginCompare(r)


(***************************************************************************)
(* SQLite values and column affinity (CREATE TABLE inventory)              *)
(***************************************************************************)
Null == [t |-> "null", v |-> ""]
SqlNull == [class |-> "NULL", v |-> ""]
Sql(class, v) == [class |-> class, v |-> v]

\* how node-sqlite3 binds a JavaScript value to a ? of a statement
Bind(x) ==
    CASE x.t = "string" -> Sql("TEXT", x.v)
      [] x.t = "number" -> Sql("INTEGER", x.v)
      [] OTHER -> SqlNull

\* the texts of the model that SQLite reads as a number, with the number
NumericTexts == {"25", "10"}
NumberOfText(s) == s

Columns == {"name", "price", "stock", "unit", "category"}

\* the declared type of each column
ColumnType(col) ==
    CASE col = "price" -> "REAL"
      [] col = "stock" -> "INTEGER"
      [] OTHER -> "TEXT"

\* the mutant: every column is declared TEXT
AffinityAllText(col, val) ==
    IF val.class \in {"INTEGER", "REAL"} THEN Sql("TEXT", val.v) ELSE val

\* the value a column keeps of a bound value
Affinity(col, val) ==
    CASE ColumnType(col) = "TEXT" ->
           IF val.class \in {"INTEGER", "REAL"} THEN Sql("TEXT", val.v) ELSE val
      [] ColumnType(col) = "REAL" ->
           IF val.class = "TEXT" /\ val.v \in NumericTexts THEN Sql("REAL", NumberOfText(val.v))
           ELSE IF val.class = "INTEGER" THEN Sql("REAL", val.v)
           ELSE val
      [] OTHER ->
           IF val.class = "TEXT" /\ val.v \in NumericTexts THEN Sql("INTEGER", NumberOfText(val.v))
           ELSE val

\* the JavaScript value node-sqlite3 returns for a stored value
Load(val) ==
    CASE val.class = "TEXT" -> Str(val.v)
      [] val.class \in {"INTEGER", "REAL"} -> Num(val.v)
      [] OTHER -> Null

NullBlob == [null |-> TRUE, bytes |-> <<>>]
Blob(bytes) == [null |-> FALSE, bytes |-> bytes]

(***************************************************************************)
(* Product requests                                                        *)
(***************************************************************************)
\* a JSON body, as the spec's example gives it
JsonPayloads ==
    {[name |-> Str("Rice"), price |-> Num("50"), stock |-> Num("100"),
      unit |-> Str("kg"), category |-> Str("grains")]}

\* the fields of a multipart body: every value is text, or missing
MilkForm ==
    [name |-> Str("Milk"), price |-> Str("25"), stock |-> Str("10"),
     unit |-> Str("l"), category |-> Str("dairy")]

SparseForm ==
    [name |-> Str("rice"), price |-> Str("n/a"), stock |-> Undefined,
     unit |-> Undefined, category |-> Str("")]

\* a file part is the sequence of chunks it arrives in; a body carries no
\* file part, one, or two (the second one empty)
FileLists == {<< >>, << <<<<1>>, <<2>>>> >>, << <<<<1>>, <<2>>>>, << >> >>}

ProductRequests ==
    [multipart : {FALSE}, fields : JsonPayloads, files : {<< >>}]
    \cup [multipart : {TRUE}, fields : {MilkForm}, files : FileLists]
    \cup [multipart : {TRUE}, fields : {SparseForm}, files : {<< >>}]

\* ids as they appear in a path: every id the table hands out, and one more
PathIds == 1..(MaxProducts + 1)

\* the category query parameter: missing, empty or a text
CategoryParams == {Undefined, Str(""), Str("grains"), Str("Grains")}

(***************************************************************************)
(* handleFileUpload                                                        *)
(***************************************************************************)
\* the mutant: each data event overwrites the chunks instead of being pushed
KeepLastChunk(chunks) == IF chunks = << >> THEN << >> ELSE chunks[Len(chunks)]

RECURSIVE BufferConcat(_)
\* Buffer.concat(chunks)
BufferConcat(chunks) ==
    IF chunks = << >> THEN << >> ELSE Head(chunks) \o BufferConcat(Tail(chunks))

NoFile == [present |-> FALSE, bytes |-> << >>]
Buffer(bytes) == [present |-> TRUE, bytes |-> bytes]

\* req.body and req.file when next() is called: every file part sets
\* req.file when it ends, so the last one stays
HandleFileUpload(req) ==
    IF ~req.multipart THEN [body |-> req.fields, file |-> NoFile]
    ELSE [body |-> req.fields,
          file |-> IF req.files = << >> THEN NoFile
                   ELSE Buffer(BufferConcat(req.files[Len(req.files)]))]

(***************************************************************************)
(* Table inventory                                                         *)
(***************************************************************************)
Ids(rows) == {row.id : row \in rows}

Max(S) == IF S = {} THEN 0 ELSE CHOOSE x \in S : \A y \in S : y <= x

\* the mutant: INTEGER PRIMARY KEY without AUTOINCREMENT
NextIdFromRows == Max(Ids(inventory)) + 1

\* id INTEGER PRIMARY KEY AUTOINCREMENT: above every id ever handed out
NextId == Max(Ids(inventory) \cup {seq}) + 1

StoredRow(id, body, image) ==
    [id |-> id,
     name |-> Affinity("name", Bind(body.name)),
     price |-> Affinity("price", Bind(body.price)),
     stock |-> Affinity("stock", Bind(body.stock)),
     unit |-> Affinity("unit", Bind(body.unit)),
     category |-> Affinity("category", Bind(body.category)),
     image |-> image]

\* the mutant: one UPDATE statement that always sets image
UpdatedRowAlwaysImage(row, body, file) ==
    StoredRow(row.id, body, IF file.present THEN Blob(file.bytes) ELSE NullBlob)

\* UPDATE inventory SET ... WHERE id=?, with or without image=?
UpdatedRow(row, body, file) ==
    StoredRow(row.id, body, IF file.present THEN Blob(file.bytes) ELSE row.image)

\* the mutant: the DELETE matches no row
DeleteNothing(id) == inventory

\* DELETE FROM inventory WHERE id=?
RowsAfterDelete(id) == {row \in inventory : row.id # id}

(***************************************************************************)
(* The GET handlers run one SELECT and change nothing: each is the         *)
(* response it gives in the current state.                                 *)
(***************************************************************************)
\* the row as JSON, the image as base64
ProductJson(row) ==
    [id |-> row.id, name |-> Load(row.name), price |-> Load(row.price),
     stock |-> Load(row.stock), unit |-> Load(row.unit),
     category |-> Load(row.category),
     image |-> IF row.image.null THEN [null |-> TRUE, base64of |-> << >>]
               ELSE [null |-> FALSE, base64of |-> row.image.bytes]]

\* GET /product/:id
ProductResponse(id) ==
    LET rows == {row \in inventory : row.id = id}
    IN IF rows = {} THEN [status |-> 404, found |-> {}]
       ELSE [status |-> 200, found |-> {ProductJson(row) : row \in rows}]

\* GET /image/:id  (a Buffer, even an empty one, is truthy)
ImageResponse(id) ==
    LET rows == {row \in inventory : row.id = id /\ ~row.image.null}
    IN IF rows = {} THEN [status |-> 404, type |-> "text/html", bytes |-> << >>]
       ELSE [status |-> 200, type |-> "image/jpeg",
             bytes |-> (CHOOSE row \in rows : TRUE).image.bytes]

\* GET /products?category=
ListResponse(category) ==
    LET rows == IF Falsy(category) THEN inventory
                ELSE {row \in inventory : row.category = Bind(category)}
    IN [status |-> 200, products |-> {ProductJson(row) : row \in rows}]

Reply(op, id, status, body) ==
    [op |-> op, id |-> id, status |-> status, body |-> body]

Without(f, id) == [i \in DOMAIN f \ {id} |-> f[i]]

\* POST /addProduct
AddProduct(req) ==
    /\ seq < MaxProducts
    /\ LET up == HandleFileUpload(req)
           image == IF up.file.present THEN Blob(up.file.bytes) ELSE NullBlob
           id == NextId
       IN /\ inventory' = inventory \cup {StoredRow(id, up.body, image)}
          /\ seq' = id
          /\ assigned' = assigned \cup {id}
          /\ created' = (id :> req) @@ created
          /\ last' = Reply("add", id, 200,
                           [message |-> "Product added!", product |-> up.body,
                            imageUrl |-> IF up.file.present THEN id ELSE 0])
    /\ UNCHANGED deleted
    /\ UNCHANGED userVars

\* PUT /updateProduct/:id
UpdateProduct(id, req) ==
    /\ LET up == HandleFileUpload(req)
       IN inventory' = {IF row.id = id THEN UpdatedRow(row, up.body, up.file) ELSE row :
                           row \in inventory}
    /\ created' = Without(created, id)
    /\ last' = Reply("update", id, 200, [message |-> "Updated!"])
    /\ UNCHANGED <<seq, assigned, deleted>>
    /\ UNCHANGED userVars

\* DELETE /deleteProduct/:id
DeleteProduct(id) ==
    /\ inventory' = RowsAfterDelete(id)
    /\ deleted' = deleted \cup {id}
    /\ created' = Without(created, id)
    /\ last' = Reply("delete", id, 200, [message |-> "Deleted!"])
    /\ UNCHANGED <<seq, assigned>>
    /\ UNCHANGED userVars

InitInventory ==
    /\ inventory = {}
    /\ seq = 0
    /\ assigned = {}
    /\ deleted = {}
    /\ created = <<>>
    /\ last = Reply("none", 0, 0, << >>)

Init == InitUsers /\ InitInventory

NextInventory ==
    \/ \E req \in ProductRequests : AddProduct(req)
    \/ \E id \in PathIds, req \in ProductRequests : UpdateProduct(id, req)
    \/ \E id \in PathIds : DeleteProduct(id)

SpecUsers == Init /\ [][NextUsers]_vars

SpecInventory == Init /\ [][NextInventory]_vars

(***************************************************************************)
(* Claims about POST /register and POST /login                             *)
(***************************************************************************)
Status(r) == resp[r][1].status
InsertFailed == Response(500, "Error inserting user")
Registered == Response(201, "User registered successfully")
Duplicate == Response(400, "Username or Email already exists")

\* C1: in every reachable state, whatever the interleaving of the register
\* requests' pre-check, hash and insert steps, no two rows of users share a
\* username and no two rows share an email.
C1_UsernameAndEmailUnique ==
    \A u1, u2 \in users :
        u1 # u2 => u1.username # u2.username /\ u1.email # u2.email

\* an insert was refused by the table after its pre-check had found nothing
C1_Witness ==
    \E r \in Reqs : resp[r] = <<InsertFailed>> /\ Cardinality(users) = 1

\* C2: a register request with all five fields present that arrives when a
\* user with its username (and another email), or with its email (and another
\* username), is already stored never changes users, and is answered 400.
C2_DuplicateRejected ==
    [][\A r \in Reqs :
          (conflictAtIssue[r] \in {"username", "email"} /\ pc'[r] # pc[r]) =>
              /\ users' = users
              /\ pc'[r] = "done" => resp'[r] = <<Duplicate>>]_vars

C2_Witness ==
    \E r \in Reqs :
        conflictAtIssue[r] = "email" /\ pc[r] = "done" /\ resp[r] = <<Duplicate>>

Collide(r1, r2) ==
    /\ r1 # r2
    /\ passed[r1].t = "passed" /\ passed[r2].t = "passed"
    /\ passed[r1].username = passed[r2].username \/ passed[r1].email = passed[r2].email

\* a third request that passed its pre-check too and stored a row with the
\* username or email of r
BeatenByAnother(r, r1, r2) ==
    \E o \in Reqs \ {r1, r2} :
        /\ passed[o].t = "passed" /\ resp[o] = <<Registered>>
        /\ passed[o].username = passed[r].username \/ passed[o].email = passed[r].email

\* C9 as stated: whenever two register requests with the same username (or
\* email) both pass the pre-check, exactly one is answered 201 and the other
\* is answered 500 for the failed insert.
C9_ExactlyOneInserts ==
    \A r1, r2 \in Reqs :
        (Collide(r1, r2) /\ pc[r1] = "done" /\ pc[r2] = "done") =>
            \/ resp[r1] = <<Registered>> /\ resp[r2] = <<InsertFailed>>
            \/ resp[r2] = <<Registered>> /\ resp[r1] = <<InsertFailed>>

\* C9 as amended: of two such requests at most one is answered 201, each
\* one that is not is answered 500 and never 400, and exactly one is
\* answered 201 when both passwords hashed and no third request stored a
\* colliding row first.
C9_AtMostOneInserts ==
    \A r1, r2 \in Reqs :
        (Collide(r1, r2) /\ pc[r1] = "done" /\ pc[r2] = "done") =>
            /\ Status(r1) \in {201, 500} /\ Status(r2) \in {201, 500}
            /\ ~(Status(r1) = 201 /\ Status(r2) = 201)
            /\ ( /\ passed[r1].hashed /\ passed[r2].hashed
                 /\ ~BeatenByAnother(r1, r1, r2) /\ ~BeatenByAnother(r2, r1, r2) )
               => (Status(r1) = 201 \/ Status(r2) = 201)

C9_Witness ==
    \E r1, r2 \in Reqs :
        /\ Collide(r1, r2)
        /\ passed[r1].username = passed[r2].username
        /\ passed[r1].email # passed[r2].email
        /\ resp[r1] = <<Registered>> /\ resp[r2] = <<InsertFailed>>

\* the password a stored digest was made from
PlainOf(hash) == Str(hash.of)

\* C6: login looks the user up by username alone and answers 401 "Invalid
\* Username!" if there is none, 401 "Invalid Password!" if the supplied
\* password is not the one the user registered with, 200 with success if it
\* is; and it never changes users.
C6_LoginContract ==
    [][\A r \in Reqs :
          (pc[r] \in {"lookup", "compare"} /\ pc'[r] # pc[r]) =>
              /\ users' = users
              /\ (pc[r] = "lookup" /\ SelectByUsername(closure[r].body.username) = {})
                    => resp'[r] = <<Response(401, "Invalid Username!")>>
              /\ (pc[r] = "compare" /\ closure[r].body.password # PlainOf(closure[r].user.password))
                    => resp'[r] = <<Response(401, "Invalid Password!")>>
              /\ (pc[r] = "compare" /\ closure[r].body.password = PlainOf(closure[r].user.password))
                    => resp'[r] = <<Response(200, "Login successful!")>>]_vars

\* a request has no callback left to run
Ended(r) == pc[r] \in {"done", "rejected"}

\* C10: every register and login request, whatever its body, is answered
\* exactly once: no request is left with nothing pending and no response,
\* and none is answered twice.
C10_ExactlyOneResponse ==
    \A r \in Reqs :
        /\ Len(resp[r]) <= 1
        /\ Ended(r) => Len(resp[r]) = 1

(***************************************************************************)
(* Claims about the product handlers                                       *)
(***************************************************************************)
RowOf(rows, id) == CHOOSE row \in rows : row.id = id

\* the file parts a request uploads
Uploaded(req) == IF req.multipart THEN req.files ELSE << >>

RECURSIVE BytesOf(_)
\* the bytes of a file part, chunk after chunk
BytesOf(file) ==
    IF Len(file) = 0 THEN << >>
    ELSE BytesOf(SubSeq(file, 1, Len(file) - 1)) \o file[Len(file)]

\* what a submitted field reads back as: a missing one as null, a numeric
\* text in price or stock as the number, a number in a text column as text
ReadsBackAs(col, x) ==
    IF x = Undefined THEN Null
    ELSE IF col \in {"price", "stock"} /\ x.t = "string" /\ x.v \in NumericTexts
         THEN Num(NumberOfText(x.v))
    ELSE IF col \in {"name", "unit", "category"} /\ x.t = "number" THEN Str(x.v)
    ELSE x

\* the field already has the type of its column
ColumnTyped(col, x) ==
    IF col \in {"price", "stock"} THEN x.t = "number" ELSE x.t = "string"

\* C3: for an existing id, an update replaces the five fields by the
\* request's; without an uploaded file the stored image stays, with one it
\* becomes exactly the uploaded bytes; every other row is unchanged.
C3_UpdateReplacesFieldsAndKeepsImage ==
    [][(last'.op = "update" /\ last'.id \in Ids(inventory)) =>
          \A req \in ProductRequests :
              UpdateProduct(last'.id, req) =>
                  LET id == last'.id
                      old == RowOf(inventory, id)
                      new == RowOf(inventory', id)
                  IN /\ Cardinality({row \in inventory' : row.id = id}) = 1
                     /\ \A col \in Columns :
                            Load(new[col]) = ReadsBackAs(col, req.fields[col])
                     /\ Uploaded(req) = << >> => new.image = old.image
                     /\ Len(Uploaded(req)) = 1 =>
                            new.image = Blob(BytesOf(Uploaded(req)[1]))
                     /\ {row \in inventory' : row.id # id} = {row \in inventory : row.id # id}
      ]_vars

\* a JSON update (which cannot carry a file) of a product that has an image
C3_Witness ==
    /\ last.op = "update"
    /\ \E row \in inventory :
          row.id = last.id /\ row.name = Sql("TEXT", "Rice") /\ row.image = Blob(<<1, 2>>)

\* C4 as stated: once DELETE has answered for an id, GET /product/:id of that
\* id is 404 in every later state.
C4_DeletedIdIsGone ==
    \A id \in deleted : ProductResponse(id).status = 404

\* C4 as amended: DELETE leaves GET /product/:id of its id at 404; for an id
\* that was handed out to a product, 404 then stays 404 whatever add, update
\* or delete follows; and a DELETE that matches no row answers 200 and
\* leaves inventory unchanged.
C4_DeletedAssignedIdStaysGone ==
    [][/\ \A id \in PathIds :
             DeleteProduct(id) =>
                 /\ ProductResponse(id)'.status = 404
                 /\ last'.status = 200
                 /\ id \notin Ids(inventory) => inventory' = inventory
       /\ \A id \in assigned :
             ProductResponse(id).status = 404 => ProductResponse(id)'.status = 404
      ]_vars

\* a deleted product is still gone after a later add
C4_Witness ==
    \E id \in deleted \cap assigned :
        /\ ProductResponse(id).status = 404
        /\ last.op = "add" /\ last.id # id

\* C5 as stated: until an update or delete of its id, GET /product/:id gives
\* back the name, price, stock, unit and category that were posted, and
\* GET /image/:id the uploaded bytes.
C5_SameFieldsBack ==
    \A id \in DOMAIN created :
        LET req == created[id]
        IN /\ ProductResponse(id).status = 200
           /\ \A p \in ProductResponse(id).found : \A col \in Columns :
                  \/ p[col] = req.fields[col]
                  \/ req.fields[col] = Undefined /\ p[col] = Null
           /\ Len(Uploaded(req)) = 1 =>
                  /\ ImageResponse(id).status = 200
                  /\ ImageResponse(id).bytes = BytesOf(Uploaded(req)[1])

\* C5 as amended: each field comes back as its column stores it: unchanged
\* when it has the column's type (text name, unit, category; numeric price,
\* stock), a numeric text price or stock as the number, a missing field as
\* null; and the image comes back byte for byte.
C5_FieldsBackAsStored ==
    \A id \in DOMAIN created :
        LET req == created[id]
        IN /\ ProductResponse(id).status = 200
           /\ Cardinality(ProductResponse(id).found) = 1
           /\ \A p \in ProductResponse(id).found : \A col \in Columns :
                  /\ p.id = id
                  /\ p[col] = ReadsBackAs(col, req.fields[col])
                  /\ ColumnTyped(col, req.fields[col]) => p[col] = req.fields[col]
           /\ Len(Uploaded(req)) = 1 =>
                  /\ ImageResponse(id).status = 200
                  /\ ImageResponse(id).type = "image/jpeg"
                  /\ ImageResponse(id).bytes = BytesOf(Uploaded(req)[1])

\* a product posted with a two-chunk image, not yet updated or deleted
C5_Witness ==
    \E id \in DOMAIN created :
        /\ Len(Uploaded(created[id])) = 1
        /\ ImageResponse(id).bytes = <<1, 2>>
        /\ \E p \in ProductResponse(id).found : p.price = Num("25")

\* C7: GET /products?category=X, for every X including the empty text,
\* returns exactly the rows whose stored category is X; without the
\* parameter it returns every row.
C7_ListFiltersByCategory ==
    \A X \in CategoryParams :
        ListResponse(X).products =
            IF X = Undefined THEN {ProductJson(row) : row \in inventory}
            ELSE {ProductJson(row) : row \in {r \in inventory : Load(r.category) = X}}

\* C8: the rows of inventory have pairwise distinct ids, an update changes
\* no row's id, and an id once handed out is never handed out again, even
\* after its product was deleted.
C8_IdsUniqueStableNeverReused ==
    [][/\ Cardinality(Ids(inventory')) = Cardinality(inventory')
       /\ last'.op = "update" => Ids(inventory') = Ids(inventory)
       /\ \A row \in inventory' :
             row.id \notin Ids(inventory) => row.id \notin assigned
      ]_vars

\* a product was added after an earlier one had been deleted
C8_Witness ==
    /\ last.op = "add"
    /\ \E id \in deleted \cap assigned : id \notin Ids(inventory) /\ id < last.id

====
